---- MODULE Spec2Model ----
(***************************************************************************)
(* Model of repository-languages.py: main() authenticates, lists the       *)
(* repositories of each configured project, clones, analyses, records and  *)
(* accumulates each one, removes its scratch directory, normalises the     *)
(* overall totals and writes the workbook.  The remote service, git and    *)
(* github-linguist are inputs: their outcomes are chosen with \E.          *)
(* The scratch directories live on disk and outlive a run.                 *)
(***************************************************************************)
EXTENDS Integers, Sequences, FiniteSets, TLC

VARIABLES
    pc,                 \* position of main()
    abortAt,            \* where an uncaught exception left main(), "" if none
    bitbucket,          \* main: bitbucket (workspace handle)
    project_index,      \* position of "for project_key in bitbucket_project_keys"
    repositories,       \* main: repositories
    repo_index,         \* position of "for repo_slug in repositories"
    repo_languages,     \* main: repo_languages
    language_stats,     \* main: language_stats
    project_languages,  \* main: project_languages
    overall_languages,  \* main: overall_languages
    written,            \* the workbook save_to_excel wrote in this run: <<>> or <<report>>
    fs,                 \* /tmp/repos/cloned_repo_<slug> on disk
    cloneOk,            \* history: did Repo.clone_from succeed for the repository in hand
    listed,             \* history: the listing returned for each project visited
    log                 \* history: one record per call of analyze_languages_with_linguist

vars == <<pc, abortAt, bitbucket, project_index, repositories, repo_index,
          repo_languages, language_stats, project_languages, overall_languages,
          written, fs, cloneOk, listed, log>>

----------------------------------------------------------------------------
(* Bounds and input domains *)

MaxRepos == 2       \* repositories listed in one run, over all projects
MaxPct == 1         \* largest percentage value the detector reports
MaxPairs == 2       \* longest list of (language, percentage) pairs

Slugs == {"r1", "r2"}
Languages == {"Go", "Python"}
Pcts == 0..MaxPct

bitbucket_project_keys == <<"ABC", "XYZ">>

OverallSheet == "Overall Summary"

SeqsUpTo(S, n) == UNION {[1..k -> S] : k \in 0..n}

\* every mapping language -> percentage the detector can report
StatMaps == UNION {[D -> Pcts] : D \in SUBSET Languages}

\* every list of (language, percentage) pairs the detector can report
PairSeqs == SeqsUpTo(Languages \X Pcts, MaxPairs)

----------------------------------------------------------------------------
(* Python values *)

EmptyDict == <<>>

None == [isNone |-> TRUE, items |-> EmptyDict]

Dict(m) == [isNone |-> FALSE, items |-> m]

\* d[k] = v
Put(d, k, v) == [x \in (DOMAIN d) \cup {k} |-> IF x = k THEN v ELSE d[x]]

\* floats, kept exact as reduced fractions <<numerator, denominator>>
RECURSIVE GCD(_, _)
GCD(a, b) == IF b = 0 THEN a ELSE GCD(b, a % b)

Rat(n, d) == LET g == GCD(n, d) IN <<n \div g, d \div g>>

Float(p) == Rat(p, 1)

RatAdd(a, b) == Rat(a[1] * b[2] + b[1] * a[2], a[2] * b[2])

RatMul(a, b) == Rat(a[1] * b[1], a[2] * b[2])

\* defined for b # 0 only: Python raises ZeroDivisionError otherwise
RatDiv(a, b) == Rat(a[1] * b[2], a[2] * b[1])

Zero == Float(0)

Hundred == Float(100)

\* sum of the values of a dict of floats
RECURSIVE SumValues(_)
SumValues(d) ==
    IF DOMAIN d = {} THEN Zero
    ELSE LET k == CHOOSE x \in DOMAIN d : TRUE
         IN RatAdd(d[k], SumValues([x \in (DOMAIN d) \ {k} |-> d[x]]))

----------------------------------------------------------------------------
(* get_authenticated_session *)

\* variant: the failure is swallowed and main goes on without a handle
get_authenticated_session_swallow(serviceOk) ==
    IF serviceOk THEN [raised |-> FALSE, value |-> "workspace"]
    ELSE [raised |-> FALSE, value |-> "unbound"]

get_authenticated_session(serviceOk) ==
    IF serviceOk THEN [raised |-> FALSE, value |-> "workspace"]
    ELSE [raised |-> TRUE, value |-> "unbound"]

(* get_repositories_in_project: remote is what the service holds; fault = 0  *)
(* is no fault, fault = n is an exception before the n-th slug is appended   *)
(* (n = 1 covers projects.get failing).  The slugs appended so far return.   *)
get_repositories_in_project(remote, fault) ==
    IF fault = 0 THEN remote ELSE SubSeq(remote, 1, fault - 1)

\* variant: the emptiness test is dropped
HasRepositoriesAlways(repos) == TRUE

(* main line 119: "if repositories:" *)
HasRepositories(repos) == repos # <<>>

(* main line 124 *)
CloneDir(slug) == slug

(* clone_bitbucket_repo: git refuses a destination that exists and is not   *)
(* empty; a failed clone leaves the destination as it was.                  *)
CloneSucceeds(dirs, slug, remoteOk) == remoteOk /\ dirs[CloneDir(slug)] = "absent"

clone_bitbucket_repo(dirs, slug, remoteOk) ==
    IF CloneSucceeds(dirs, slug, remoteOk)
    THEN [dirs EXCEPT ![CloneDir(slug)] = "repo"]
    ELSE dirs

(* ghl.linguist(clone_dir): raises, returns None for a directory that is    *)
(* no git repository, and otherwise a list of pairs or a mapping.           *)
Outcome(kind, pairs, map) == [kind |-> kind, pairs |-> pairs, map |-> map]

LinguistOutcomes(dir) ==
    {Outcome("raise", <<>>, EmptyDict)}
    \cup (IF dir = "repo"
          THEN {Outcome("list", ps, EmptyDict) : ps \in PairSeqs}
               \cup {Outcome("dict", <<>>, m) : m \in StatMaps}
          ELSE {Outcome("none", <<>>, EmptyDict)})

(* line 55: {lang: perc for lang, perc in language_stats}; a later pair     *)
(* replaces an earlier one with the same language                           *)
ListToDict(pairs) ==
    [l \in {pairs[k][1] : k \in DOMAIN pairs} |->
        LET last == CHOOSE k \in DOMAIN pairs :
                        /\ pairs[k][1] = l
                        /\ \A m \in DOMAIN pairs : pairs[m][1] = l => m <= k
        IN pairs[last][2]]

analyze_languages_with_linguist(out) ==
    CASE out.kind = "raise" -> Dict(EmptyDict)
      [] out.kind = "list" -> Dict(ListToDict(out.pairs))
      [] out.kind = "dict" -> Dict(out.map)
      [] out.kind = "none" -> None

\* variant: "=" instead of "+=" for a language already present
AccumulateAssign(totals, stats) ==
    [l \in (DOMAIN totals) \cup (DOMAIN stats) |->
        IF l \in DOMAIN stats THEN Float(stats[l]) ELSE totals[l]]

\* variant: a language not yet present starts at 0 instead of its value
AccumulateFromZero(totals, stats) ==
    [l \in (DOMAIN totals) \cup (DOMAIN stats) |->
        IF l \in DOMAIN stats
        THEN IF l \in DOMAIN totals
             THEN RatAdd(totals[l], Float(stats[l]))
             ELSE Zero
        ELSE totals[l]]

(* main lines 136-140 *)
Accumulate(totals, stats) ==
    [l \in (DOMAIN totals) \cup (DOMAIN stats) |->
        IF l \in DOMAIN stats
        THEN IF l \in DOMAIN totals
             THEN RatAdd(totals[l], Float(stats[l]))
             ELSE Float(stats[l])
        ELSE totals[l]]

(* main lines 151-153 *)
TotalPercentage(totals) == RatAdd(Zero, SumValues(totals))

\* variant: the factor 100 is forgotten
NormalizeValueNoScale(value, total) == RatDiv(value, total)

(* main line 155 *)
NormalizeValue(value, total) == RatMul(RatDiv(value, total), Hundred)

(* main lines 154-155: raises when a value is divided by a zero total *)
NormalizeRaises(totals) == DOMAIN totals # {} /\ TotalPercentage(totals) = Zero

NormalizeTotals(totals) ==
    [l \in DOMAIN totals |-> NormalizeValue(totals[l], TotalPercentage(totals))]

\* variant: the columns are taken from one repository only
AllLanguagesOfOne(repo_langs) ==
    IF DOMAIN repo_langs = {} THEN {}
    ELSE DOMAIN repo_langs[CHOOSE s \in DOMAIN repo_langs : TRUE].items

(* save_to_excel lines 73-75 *)
AllLanguages(repo_langs) == UNION {DOMAIN repo_langs[s].items : s \in DOMAIN repo_langs}

(* save_to_excel lines 70-89: one row per repository, one column per language *)
ProjectSheet(repo_langs) ==
    [rows |-> DOMAIN repo_langs,
     columns |-> AllLanguages(repo_langs),
     cell |-> [s \in DOMAIN repo_langs |->
                 [l \in AllLanguages(repo_langs) |->
                     IF l \in DOMAIN repo_langs[s].items
                     THEN repo_langs[s].items[l] ELSE 0]]]

(* save_to_excel lines 88-89: DataFrame([]) has no "Repository" column, so  *)
(* set_index raises KeyError for a project without rows                     *)
SaveRaises(tables) == \E p \in DOMAIN tables : DOMAIN tables[p] = {}

save_to_excel(tables, overall) ==
    [sheets |-> (DOMAIN tables) \cup {OverallSheet},
     projects |-> [p \in DOMAIN tables |-> ProjectSheet(tables[p])],
     overall |-> overall]

----------------------------------------------------------------------------
(* main *)

Memory0 ==
    /\ pc = "start"
    /\ abortAt = ""
    /\ bitbucket = "unbound"
    /\ project_index = 1
    /\ repositories = <<>>
    /\ repo_index = 1
    /\ repo_languages = EmptyDict
    /\ language_stats = Dict(EmptyDict)
    /\ project_languages = EmptyDict
    /\ overall_languages = EmptyDict
    /\ written = <<>>
    /\ cloneOk = FALSE
    /\ listed = <<>>
    /\ log = <<>>

Init == Memory0 /\ fs = [s \in Slugs |-> "absent"]

project_key == bitbucket_project_keys[project_index]

repo_slug == repositories[repo_index]

RECURSIVE TotalLen(_)
TotalLen(seqs) == IF seqs = <<>> THEN 0 ELSE Len(Head(seqs)) + TotalLen(Tail(seqs))

(* line 115: the next project key, or the end of the project loop *)
AfterProject(next_index) ==
    IF next_index > Len(bitbucket_project_keys) THEN "normalize" ELSE "project"

Abort(where) == pc' = "aborted" /\ abortAt' = where

(* lines 108-113 *)
Authenticate ==
    /\ pc = "start"
    /\ \E serviceOk \in BOOLEAN :
         LET r == get_authenticated_session(serviceOk) IN
         IF r.raised
         THEN /\ Abort("authenticate")
              /\ UNCHANGED bitbucket
         ELSE /\ bitbucket' = r.value
              /\ pc' = "project"
              /\ UNCHANGED abortAt
    /\ UNCHANGED <<project_index, repositories, repo_index, repo_languages,
                   language_stats, project_languages, overall_languages,
                   written, fs, cloneOk, listed, log>>

(* lines 115-120, 147-148: list the project; an empty listing skips it *)
ListProject ==
    /\ pc = "project"
    /\ \E remote \in SeqsUpTo(Slugs, MaxRepos - TotalLen(listed)) :
       \E fault \in (IF bitbucket = "workspace" THEN 0..(Len(remote) + 1) ELSE {1}) :
         LET repos == get_repositories_in_project(remote, fault) IN
         /\ repositories' = repos
         /\ listed' = Append(listed, repos)
         /\ IF HasRepositories(repos)
            THEN /\ repo_languages' = EmptyDict
                 /\ repo_index' = 1
                 /\ pc' = "for_repo"
                 /\ UNCHANGED project_index
            ELSE /\ project_index' = project_index + 1
                 /\ pc' = AfterProject(project_index')
                 /\ UNCHANGED <<repo_languages, repo_index>>
    /\ UNCHANGED <<abortAt, bitbucket, language_stats, project_languages,
                   overall_languages, written, fs, cloneOk, log>>

(* lines 122-124: the next repository of the listing *)
NextRepo ==
    /\ pc = "for_repo"
    /\ repo_index <= Len(repositories)
    /\ pc' = "clone"
    /\ UNCHANGED <<abortAt, bitbucket, project_index, repositories, repo_index,
                   repo_languages, language_stats, project_languages,
                   overall_languages, written, fs, cloneOk, listed, log>>

(* lines 122, 146: the repository loop is exhausted; store the project's table *)
StoreProject ==
    /\ pc = "for_repo"
    /\ repo_index > Len(repositories)
    /\ project_languages' = Put(project_languages, project_key, repo_languages)
    /\ project_index' = project_index + 1
    /\ pc' = AfterProject(project_index')
    /\ UNCHANGED <<abortAt, bitbucket, repositories, repo_index, repo_languages,
                   language_stats, overall_languages, written, fs, cloneOk,
                   listed, log>>

(* line 127 *)
Clone ==
    /\ pc = "clone"
    /\ \E remoteOk \in BOOLEAN :
         /\ fs' = clone_bitbucket_repo(fs, repo_slug, remoteOk)
         /\ cloneOk' = CloneSucceeds(fs, repo_slug, remoteOk)
    /\ pc' = "analyze"
    /\ UNCHANGED <<abortAt, bitbucket, project_index, repositories, repo_index,
                   repo_languages, language_stats, project_languages,
                   overall_languages, written, listed, log>>

(* line 130 *)
Analyze ==
    /\ pc = "analyze"
    /\ \E out \in LinguistOutcomes(fs[CloneDir(repo_slug)]) :
         /\ language_stats' = analyze_languages_with_linguist(out)
         /\ log' = Append(log, [project |-> project_key, slug |-> repo_slug,
                                stats |-> language_stats'])
    /\ pc' = "record"
    /\ UNCHANGED <<abortAt, bitbucket, project_index, repositories, repo_index,
                   repo_languages, project_languages, overall_languages,
                   written, fs, cloneOk, listed>>

(* line 133 *)
Record ==
    /\ pc = "record"
    /\ repo_languages' = Put(repo_languages, repo_slug, language_stats)
    /\ pc' = "accumulate"
    /\ UNCHANGED <<abortAt, bitbucket, project_index, repositories, repo_index,
                   language_stats, project_languages, overall_languages,
                   written, fs, cloneOk, listed, log>>

(* lines 136-140: None has no items(), the AttributeError is not caught *)
AccumulateStats ==
    /\ pc = "accumulate"
    /\ IF language_stats.isNone
       THEN /\ Abort("accumulate")
            /\ UNCHANGED overall_languages
       ELSE /\ overall_languages' = Accumulate(overall_languages, language_stats.items)
            /\ pc' = "cleanup"
            /\ UNCHANGED abortAt
    /\ UNCHANGED <<bitbucket, project_index, repositories, repo_index,
                   repo_languages, language_stats, project_languages,
                   written, fs, cloneOk, listed, log>>

(* line 143: rm -rf clone_dir *)
RemoveDir(dirs, slug) == [dirs EXCEPT ![CloneDir(slug)] = "absent"]

Cleanup ==
    /\ pc = "cleanup"
    /\ fs' = RemoveDir(fs, repo_slug)
    /\ repo_index' = repo_index + 1
    /\ cloneOk' = FALSE
    /\ pc' = "for_repo"
    /\ UNCHANGED <<abortAt, bitbucket, project_index, repositories,
                   repo_languages, language_stats, project_languages,
                   overall_languages, written, listed, log>>

(* lines 150-155 *)
Normalize ==
    /\ pc = "normalize"
    /\ IF NormalizeRaises(overall_languages)
       THEN /\ Abort("normalize")
            /\ UNCHANGED overall_languages
       ELSE /\ overall_languages' = NormalizeTotals(overall_languages)
            /\ pc' = "write"
            /\ UNCHANGED abortAt
    /\ UNCHANGED <<bitbucket, project_index, repositories, repo_index,
                   repo_languages, language_stats, project_languages,
                   written, fs, cloneOk, listed, log>>

(* lines 157-159 *)
WriteReport ==
    /\ pc = "write"
    /\ IF SaveRaises(project_languages)
       THEN /\ Abort("write")
            /\ UNCHANGED written
       ELSE /\ written' = <<save_to_excel(project_languages, overall_languages)>>
            /\ pc' = "done"
            /\ UNCHANGED abortAt
    /\ UNCHANGED <<bitbucket, project_index, repositories, repo_index,
                   repo_languages, language_stats, project_languages,
                   overall_languages, fs, cloneOk, listed, log>>

(* lines 162-163: the process stops (it finished, an uncaught exception     *)
(* ended it, or it was killed) and the script is started again; the memory  *)
(* of main() is fresh, the scratch directories are what the last run left   *)
Rerun ==
    /\ pc # "start"
    /\ pc' = "start"
    /\ abortAt' = ""
    /\ bitbucket' = "unbound"
    /\ project_index' = 1
    /\ repositories' = <<>>
    /\ repo_index' = 1
    /\ repo_languages' = EmptyDict
    /\ language_stats' = Dict(EmptyDict)
    /\ project_languages' = EmptyDict
    /\ overall_languages' = EmptyDict
    /\ written' = <<>>
    /\ cloneOk' = FALSE
    /\ listed' = <<>>
    /\ log' = <<>>
    /\ UNCHANGED fs

Next ==
    \/ Authenticate
    \/ ListProject
    \/ NextRepo
    \/ StoreProject
    \/ Clone
    \/ Analyze
    \/ Record
    \/ AccumulateStats
    \/ Cleanup
    \/ Normalize
    \/ WriteReport
    \/ Rerun

Spec == Init /\ [][Next]_vars

----------------------------------------------------------------------------
(* Properties *)

\* the languages of the results analyze_languages_with_linguist returned
LogLanguages == UNION {DOMAIN log[k].stats.items : k \in DOMAIN log}

\* plain sum of the percentage of language l over the analysed repositories
RECURSIVE LogSum(_, _)
LogSum(entries, l) ==
    IF entries = <<>> THEN 0
    ELSE (IF l \in DOMAIN Head(entries).stats.items
          THEN Head(entries).stats.items[l] ELSE 0) + LogSum(Tail(entries), l)

RECURSIVE SumOver(_, _)
SumOver(S, f) ==
    IF S = {} THEN 0
    ELSE LET x == CHOOSE y \in S : TRUE IN f[x] + SumOver(S \ {x}, f)

LogTotal == SumOver(Languages, [l \in Languages |-> LogSum(log, l)])

\* the (project, repository) entries of the per-project tables
TableEntries ==
    {e \in (DOMAIN project_languages) \X Slugs : e[2] \in DOMAIN project_languages[e[1]]}

TableLanguages ==
    UNION {DOMAIN project_languages[e[1]][e[2]].items : e \in TableEntries}

TableSum(l) ==
    SumOver(TableEntries,
            [e \in TableEntries |->
                LET d == project_languages[e[1]][e[2]].items
                IN IF l \in DOMAIN d THEN d[l] ELSE 0])

NoRepeatedSlug(listing) ==
    \A a, b \in DOMAIN listing : listing[a] = listing[b] => a = b

\* C1: once authentication has succeeded, no listing, clone or analysis
\* outcome makes the run end in an uncaught exception inside the project
\* loop: the run goes on to normalization and report writing.
C1_NoAbortInProjectLoop ==
    bitbucket = "workspace" => ~(pc = "aborted" /\ abortAt = "accumulate")

\* C2: a repository whose clone step failed is recorded with no nonzero
\* language value, whatever the scratch path held before the clone attempt.
C2_FailedCloneHasNoData ==
    (pc = "record" /\ ~cloneOk) =>
        \A l \in DOMAIN language_stats.items : language_stats.items[l] = 0

\* C3: the normalization step of main raises no uncontrolled fault, also
\* when the accumulated totals are empty or all zero.
C3_NormalizeNeverRaises == ~(pc = "aborted" /\ abortAt = "normalize")

\* C4: after the normalization step, totals that held at least one nonzero
\* value sum to 100, and their languages are those accumulated before it.
C4_NormalizedSumsTo100 ==
    (pc \in {"write", "done"} /\ DOMAIN overall_languages # {}) =>
        /\ SumValues(overall_languages) = <<100, 1>>
        /\ DOMAIN overall_languages = LogLanguages

C4_Witness ==
    /\ pc = "write"
    /\ Cardinality(DOMAIN overall_languages) = 2
    /\ \E l \in DOMAIN overall_languages : overall_languages[l] \notin {<<0, 1>>, <<100, 1>>}

C6_OverallIsNormalizedPlainSum ==
    written # <<>> =>
        LET overall == written[1].overall IN
        /\ DOMAIN overall = LogLanguages
        /\ \A l \in DOMAIN overall :
             /\ LogTotal > 0
             /\ overall[l][1] * LogTotal = 100 * LogSum(log, l) * overall[l][2]

C6_Witness ==
    /\ written # <<>>
    /\ Len(log) = 2
    /\ log[1].stats.items = [l \in {"Go"} |-> 1]
    /\ log[2].stats.items = [l \in {"Go", "Python"} |-> 1]
    /\ written[1].overall["Go"] = <<200, 3>>
    /\ written[1].overall["Python"] = <<100, 3>>

\* C7: a project key whose listing returned no slug gets no entry in the
\* per-project tables and no sheet, the run goes on with the next project
\* key, and report writing does not raise.
C7_EmptyProjectOmitted ==
    /\ \A k \in DOMAIN listed :
         listed[k] = <<>> =>
            /\ bitbucket_project_keys[k] \notin DOMAIN project_languages
            /\ project_index > k
            /\ written # <<>> => bitbucket_project_keys[k] \notin written[1].sheets
    /\ ~(pc = "aborted" /\ abortAt = "write")
    /\ (pc = "done" /\ \A k \in DOMAIN listed : listed[k] = <<>>) =>
            written[1].sheets = {OverallSheet}

C7_Witness ==
    /\ pc = "done"
    /\ listed = << <<>>, <<>> >>
    /\ written[1].sheets = {OverallSheet}
    /\ written[1].overall = EmptyDict

\* C8: the scratch directory of a repository does not exist immediately
\* before its clone step, also in a run that follows one which stopped.
C8_ScratchAbsentBeforeClone ==
    pc = "clone" => fs[CloneDir(repo_slug)] = "absent"

\* C9: when authentication fails the run aborts at the authentication step:
\* no project is listed, no repository cloned or analysed, no report written.
C9_AuthFailureAborts ==
    (pc # "start" /\ bitbucket = "unbound") =>
        /\ pc = "aborted"
        /\ abortAt = "authenticate"
        /\ listed = <<>>
        /\ log = <<>>
        /\ project_languages = EmptyDict
        /\ written = <<>>

C9_Witness ==
    /\ pc = "aborted"
    /\ abortAt = "authenticate"
    /\ bitbucket = "unbound"

\* C10: when the project loop has finished and normalization has not
\* started, the overall total of each language is the sum of its values over
\* the entries of the per-project tables, and the languages agree, provided
\* no listing of a single project repeated a slug.
C10_TotalsMatchTables ==
    (pc = "normalize" /\ \A k \in DOMAIN listed : NoRepeatedSlug(listed[k])) =>
        /\ DOMAIN overall_languages = TableLanguages
        /\ \A l \in DOMAIN overall_languages :
             overall_languages[l] = <<TableSum(l), 1>>

C10_Witness ==
    /\ pc = "normalize"
    /\ listed = << <<"r1">>, <<"r1">> >>
    /\ DOMAIN project_languages = {"ABC", "XYZ"}
    /\ overall_languages = [l \in {"Go"} |-> <<2, 1>>]
====
